---------------------------- MODULE Spec2Model ----------------------------
(***************************************************************************)
(* shared_logging: configure_logger (src/shared_logging/setup.py and the   *)
(* older src/shared_logging/config.py) driving the loguru logger.          *)
(*                                                                         *)
(* The state is loguru's process-wide core (handlers, extra, patcher), the *)
(* queue and worker of every enqueue=True handler, the standard output     *)
(* stream, and the position of every thread inside configure_logger, a log *)
(* call or logger.complete().                                              *)
(*                                                                         *)
(* A Python str is a sequence of one-character strings, so that            *)
(* str.upper, str.lower, orjson.dumps, orjson.loads and str.format_map are *)
(* computed character by character.                                        *)
(***************************************************************************)
EXTENDS Integers, Sequences, FiniteSets, TLC

(***************************************************************************)
(* Bounds of the model.                                                    *)
(***************************************************************************)
\* configure_logger calls made by the main thread
MaxConfigure == 1
\* log calls made by the main thread
MaxLogs == 1
\* logger.complete() calls made by application code, all threads together
MaxComplete == 1
\* log calls made by the producer threads, all together
MaxThreadLogs == 3
\* configure_logger calls the main thread makes after the one at startup
MaxReconfigure == 1

(***************************************************************************)
(* String literals.                                                        *)
(***************************************************************************)
s_development == <<"d", "e", "v", "e", "l", "o", "p", "m", "e", "n", "t">>
s_DEVELOPMENT == <<"D", "E", "V", "E", "L", "O", "P", "M", "E", "N", "T">>
s_production == <<"p", "r", "o", "d", "u", "c", "t", "i", "o", "n">>
s_TRACE == <<"T", "R", "A", "C", "E">>
s_DEBUG == <<"D", "E", "B", "U", "G">>
s_INFO == <<"I", "N", "F", "O">>
s_SUCCESS == <<"S", "U", "C", "C", "E", "S", "S">>
s_WARNING == <<"W", "A", "R", "N", "I", "N", "G">>
s_ERROR == <<"E", "R", "R", "O", "R">>
s_CRITICAL == <<"C", "R", "I", "T", "I", "C", "A", "L">>
s_debug == <<"d", "e", "b", "u", "g">>
s_verbose == <<"v", "e", "r", "b", "o", "s", "e">>
s_billing == <<"b", "i", "l", "l", "i", "n", "g">>
s_auth == <<"a", "u", "t", "h">>
s_timestamp == <<"t", "i", "m", "e", "s", "t", "a", "m", "p">>
s_level == <<"l", "e", "v", "e", "l">>
s_message == <<"m", "e", "s", "s", "a", "g", "e">>
s_service == <<"s", "e", "r", "v", "i", "c", "e">>
s_environment == <<"e", "n", "v", "i", "r", "o", "n", "m", "e", "n", "t">>
s_exception == <<"e", "x", "c", "e", "p", "t", "i", "o", "n">>
s_request_id == <<"r", "e", "q", "u", "e", "s", "t", "_", "i", "d">>
s_abc123 == <<"a", "b", "c", "-", "1", "2", "3">>
s_payload == <<"p", "a", "y", "l", "o", "a", "d">>
s_object == <<"<", "o", "b", "j", "e", "c", "t", ">">>
s_spoofed == <<"s", "p", "o", "o", "f", "e", "d">>
s_low == <<"l", "o", "w">>
\* "Asynchronous, structured JSON logger configured for '"
s_setup_banner == <<"A", "s", "y", "n", "c", "h", "r", "o", "n", "o", "u", "s", ",", " ", "s", "t", "r", "u", "c", "t", "u", "r", "e", "d", " ", "J", "S", "O", "N", " ", "l", "o", "g", "g", "e", "r", " ", "c", "o", "n", "f", "i", "g", "u", "r", "e", "d", " ", "f", "o", "r", " ", "'">>
\* "Structured JSON logger configured for '"
s_config_banner == <<"S", "t", "r", "u", "c", "t", "u", "r", "e", "d", " ", "J", "S", "O", "N", " ", "l", "o", "g", "g", "e", "r", " ", "c", "o", "n", "f", "i", "g", "u", "r", "e", "d", " ", "f", "o", "r", " ", "'">>
\* "'."
s_banner_end == <<"'", ".">>
\* "{message}" as loguru stores it: "\n{exception}" is appended to a str format
s_message_format == <<"{", "m", "e", "s", "s", "a", "g", "e", "}", "\n", "{", "e", "x", "c", "e", "p", "t", "i", "o", "n", "}">>
ascii_lowercase == <<"a", "b", "c", "d", "e", "f", "g", "h", "i", "j", "k", "l", "m", "n", "o", "p", "q", "r", "s", "t", "u", "v", "w", "x", "y", "z">>
ascii_uppercase == <<"A", "B", "C", "D", "E", "F", "G", "H", "I", "J", "K", "L", "M", "N", "O", "P", "Q", "R", "S", "T", "U", "V", "W", "X", "Y", "Z">>
digits == <<"0", "1", "2", "3", "4", "5", "6", "7", "8", "9">>

s_LOG_LEVEL == <<"L", "O", "G", "_", "L", "E", "V", "E", "L">>

(***************************************************************************)
(* str.lower and str.upper.                                                *)
(***************************************************************************)
LetterIndex(alphabet, c) ==
    IF \E j \in 1..Len(alphabet) : alphabet[j] = c
    THEN CHOOSE j \in 1..Len(alphabet) : alphabet[j] = c
    ELSE 0

\* the comparison made on the environment as it was passed
lower_unchanged(s) == s

lower(s) ==
    [i \in 1..Len(s) |->
        IF LetterIndex(ascii_uppercase, s[i]) > 0
        THEN ascii_lowercase[LetterIndex(ascii_uppercase, s[i])]
        ELSE s[i]]

upper(s) ==
    [i \in 1..Len(s) |->
        IF LetterIndex(ascii_lowercase, s[i]) > 0
        THEN ascii_uppercase[LetterIndex(ascii_lowercase, s[i])]
        ELSE s[i]]

(***************************************************************************)
(* Python values and dicts.  A value is a str or an object orjson has no   *)
(* encoding for (v is then its str()); a dict is the sequence of its       *)
(* <<key, value>> items in insertion order, keys unique.                   *)
(***************************************************************************)
Str(s) == [t |-> "str", v |-> s]
Obj(s) == [t |-> "obj", v |-> s]

DictKeys(d) == {d[i][1] : i \in 1..Len(d)}

DictGet(d, k) == d[CHOOSE i \in 1..Len(d) : d[i][1] = k][2]

\* d[k] = v: an existing key keeps its position
DictSet(d, k, v) ==
    IF k \in DictKeys(d)
    THEN [i \in 1..Len(d) |-> IF d[i][1] = k THEN <<k, v>> ELSE d[i]]
    ELSE Append(d, <<k, v>>)

\* d.update(e), also the {**d, **e} display
RECURSIVE DictUpdate(_, _)
DictUpdate(d, e) ==
    IF e = <<>> THEN d
    ELSE DictUpdate(DictSet(d, e[1][1], e[1][2]), Tail(e))

(***************************************************************************)
(* orjson.dumps(...).decode("utf-8") and orjson.loads on dicts of str      *)
(* values.  The strings of the model hold no quote, backslash or control   *)
(* character, so no character is escaped.                                  *)
(***************************************************************************)
Quote(s) == <<"\"">> \o s \o <<"\"">>

\* orjson raises JSONEncodeError (a TypeError) on a value it cannot encode
Serializable(d) == \A i \in 1..Len(d) : d[i][2].t = "str"

RECURSIVE DumpsMembers(_)
DumpsMembers(d) ==
    IF d = <<>> THEN <<>>
    ELSE Quote(d[1][1]) \o <<":">> \o Quote(d[1][2].v)
         \o (IF Len(d) > 1 THEN <<",">> ELSE <<>>)
         \o DumpsMembers(Tail(d))

Dumps(d) == <<"{">> \o DumpsMembers(d) \o <<"}">>

\* the least index >= from of character c in s, 0 when there is none
Find(s, c, from) ==
    IF \E i \in from..Len(s) : s[i] = c
    THEN CHOOSE i \in from..Len(s) : s[i] = c /\ \A j \in from..(i-1) : s[j] # c
    ELSE 0

CharAt(s, i) == IF i \in 1..Len(s) THEN s[i] ELSE ""

\* the members of a JSON object from position i, which holds the opening
\* quote of a key; acc is the dict read so far
RECURSIVE LoadsMembers(_, _, _)
LoadsMembers(s, i, acc) ==
    LET kq == Find(s, "\"", i + 1)
        vq == Find(s, "\"", kq + 3)
    IN  IF CharAt(s, i) # "\"" \/ kq = 0 \/ CharAt(s, kq + 1) # ":"
           \/ CharAt(s, kq + 2) # "\"" \/ vq = 0
        THEN [ok |-> FALSE, d |-> <<>>]
        ELSE LET d2 == DictSet(acc, SubSeq(s, i + 1, kq - 1),
                               Str(SubSeq(s, kq + 3, vq - 1)))
             IN  IF CharAt(s, vq + 1) = "}" /\ vq + 1 = Len(s)
                 THEN [ok |-> TRUE, d |-> d2]
                 ELSE IF CharAt(s, vq + 1) = ","
                 THEN LoadsMembers(s, vq + 2, d2)
                 ELSE [ok |-> FALSE, d |-> <<>>]

\* ok is FALSE where orjson.loads raises JSONDecodeError
Loads(s) ==
    IF CharAt(s, 1) # "{" THEN [ok |-> FALSE, d |-> <<>>]
    ELSE IF s = <<"{", "}">> THEN [ok |-> TRUE, d |-> <<>>]
    ELSE LoadsMembers(s, 2, <<>>)

(***************************************************************************)
(* datetime.isoformat(): the clock of the model counts records, and the    *)
(* text of instant n is "T" followed by the digit n.                       *)
(***************************************************************************)
isoformat(n) == <<"T", digits[n + 1]>>

(***************************************************************************)
(* loguru's levels (loguru/_defaults.py).                                  *)
(***************************************************************************)
Levels ==
    << [name |-> s_TRACE, no |-> 5], [name |-> s_DEBUG, no |-> 10],
       [name |-> s_INFO, no |-> 20], [name |-> s_SUCCESS, no |-> 25],
       [name |-> s_WARNING, no |-> 30], [name |-> s_ERROR, no |-> 40],
       [name |-> s_CRITICAL, no |-> 50] >>

LevelExists(name) == \E i \in 1..Len(Levels) : Levels[i].name = name

\* logger.level(name): the caller checks LevelExists first
Level(name) == Levels[CHOOSE i \in 1..Len(Levels) : Levels[i].name = name]

(***************************************************************************)
(* str.format_map(record) on a loguru format.  A "{" opens a replacement   *)
(* field whose name runs to the first ":", "!" or "}"; the name is looked  *)
(* up in the record before anything else is done with the field, and a     *)
(* name that is no key of the record raises KeyError.                      *)
(***************************************************************************)
RecordKeys == {s_message, s_exception}

FieldEnd(s, from) ==
    IF \E i \in from..Len(s) : s[i] \in {":", "!", "}"}
    THEN CHOOSE i \in from..Len(s) :
            s[i] \in {":", "!", "}"} /\ \A j \in from..(i-1) : s[j] \notin {":", "!", "}"}
    ELSE 0

RECURSIVE format_map(_, _, _, _)
format_map(fmt, i, record, acc) ==
    IF i > Len(fmt) THEN [ok |-> TRUE, text |-> acc]
    ELSE IF fmt[i] # "{" THEN format_map(fmt, i + 1, record, Append(acc, fmt[i]))
    ELSE LET e == FieldEnd(fmt, i + 1)
             name == SubSeq(fmt, i + 1, e - 1)
         IN  IF e = 0 \/ name \notin RecordKeys \/ fmt[e] # "}"
             THEN [ok |-> FALSE, text |-> <<>>]
             ELSE format_map(fmt, e + 1, record,
                             acc \o (IF name = s_message THEN record.message ELSE <<>>))

(***************************************************************************)
(* State.                                                                  *)
(***************************************************************************)
VARIABLES
    module,             \* the module the process imports configure_logger from
    environ,            \* os.environ
    pc,                 \* position of the main thread inside configure_logger
    frame,              \* arguments and locals of the running configure_logger
    handler_objs,       \* every loguru Handler ever created, by handler id
    core_handlers,      \* ids of core.handlers
    core_extra,         \* core.extra
    core_patcher,       \* TRUE once core.patcher is the orjson lambda
    queue,              \* the queue of every handler (used when enqueue)
    confirmation_event, \* ids of the handlers whose confirmation event is set
    stdout,             \* the messages written to sys.stdout, in order
    stderr,             \* what reached sys.stderr, in order
    pend,               \* per thread: the record of a log call in progress
    cpl,                \* per thread: logger.complete() in progress
    exc,                \* per thread: the exception its last call raised
    clock,              \* records created so far: the time of the next one
    calls,              \* API calls started, by kind
    configured,         \* history: the arguments of the last configure_logger
                        \* call to end, if it returned
    hist,               \* history: every record a log call was made for
    enqueued,           \* history: times of the records put on a queue
    ret                 \* history: per thread, its complete() that returned last

vars == <<module, environ, pc, frame, handler_objs, core_handlers, core_extra,
          core_patcher, queue, confirmation_event, stdout, stderr, pend, cpl,
          exc, clock, calls, configured, hist, enqueued, ret>>

Threads == {"main", "t1", "t2"}

NoFrame == [service_name |-> <<>>, environment |-> <<>>,
            log_level |-> <<>>, is_development |-> FALSE]

\* loguru installs handler 0 at import: sys.stderr, level DEBUG, the default
\* text format, catch, backtrace and diagnose on, no queue
DefaultHandler ==
    [sink |-> "stderr", levelno |-> 10, dynamic |-> FALSE, serialize |-> FALSE,
     enqueue |-> FALSE, backtrace |-> TRUE, diagnose |-> TRUE, stopped |-> FALSE,
     service_name |-> <<>>, environment |-> <<>>, by |-> "loguru"]

InitWith(modules, environs) ==
    /\ module \in modules
    /\ environ \in environs
    /\ pc = "idle"
    /\ frame = NoFrame
    /\ handler_objs = [h \in {0} |-> DefaultHandler]
    /\ core_handlers = {0}
    /\ core_extra = <<>>
    /\ core_patcher = FALSE
    /\ queue = [h \in {0} |-> <<>>]
    /\ confirmation_event = {}
    /\ stdout = <<>>
    /\ stderr = <<>>
    /\ pend = [t \in Threads |-> <<>>]
    /\ cpl = [t \in Threads |-> <<>>]
    /\ exc = [t \in Threads |-> "none"]
    /\ clock = 0
    /\ calls = [configure |-> 0, log |-> 0, complete |-> 0]
    /\ configured = <<>>
    /\ hist = <<>>
    /\ enqueued = {}
    /\ ret = [t \in Threads |-> <<>>]

\* core.lock is held for the whole of logger.complete(), and for each of
\* remove(), add() and the two assignments of configure()
CoreLockFree == \A t \in Threads : cpl[t] = <<>>

\* core.min_level, which add() and remove() keep equal to the least levelno
\* of core.handlers
MinLevel(hs) ==
    IF hs = {} THEN 1000
    ELSE handler_objs[CHOOSE h \in hs :
            \A g \in hs : handler_objs[h].levelno <= handler_objs[g].levelno].levelno

Least(S) == CHOOSE x \in S : \A y \in S : x <= y

\* the records of the messages in a queue, the confirmation requests left out
RECURSIVE Messages(_)
Messages(q) ==
    IF q = <<>> THEN <<>>
    ELSE (IF q[1].kind = "msg" THEN <<q[1]>> ELSE <<>>) \o Messages(Tail(q))

\* what the workers of the handlers hs write while stop() joins them
RECURSIVE Drain(_)
Drain(hs) ==
    IF hs = {} THEN <<>>
    ELSE Messages(queue[Least(hs)]) \o Drain(hs \ {Least(hs)})

\* os.getenv(key, default)
getenv(key, default) ==
    IF key \in DictKeys(environ) THEN DictGet(environ, key).v ELSE default

(***************************************************************************)
(* configure_logger, one action per statement.                             *)
(***************************************************************************)
\* logger.remove(): every handler leaves core.handlers and is stopped; stop()
\* holds the handler's lock, puts None on the queue and joins the worker,
\* which writes what the queue holds before it exits
Remove(s, e) ==
    /\ pc = "idle" /\ pend["main"] = <<>> /\ cpl["main"] = <<>>
    /\ CoreLockFree
    /\ stdout' = stdout \o Drain({h \in core_handlers : handler_objs[h].enqueue})
    /\ queue' = [h \in DOMAIN queue |-> IF h \in core_handlers THEN <<>> ELSE queue[h]]
    /\ handler_objs' = [h \in DOMAIN handler_objs |->
                          IF h \in core_handlers
                          THEN [handler_objs[h] EXCEPT !.stopped = TRUE]
                          ELSE handler_objs[h]]
    /\ core_handlers' = {}
    /\ frame' = [NoFrame EXCEPT !.service_name = s, !.environment = e]
    /\ pc' = IF module = "setup" THEN "getenv" ELSE "add"
    /\ calls' = [calls EXCEPT !.configure = @ + 1]
    /\ exc' = [exc EXCEPT !["main"] = "none"]
    /\ ret' = [ret EXCEPT !["main"] = <<>>]
    /\ UNCHANGED <<module, environ, core_extra, core_patcher, confirmation_event,
                   stderr, pend, cpl, clock, configured, hist, enqueued>>

\* setup.py 27-28
Getenv ==
    /\ pc = "getenv"
    /\ frame' = [frame EXCEPT
                   !.log_level = upper(getenv(s_LOG_LEVEL, s_INFO)),
                   !.is_development = (lower(frame.environment) = s_development)]
    /\ pc' = "add"
    /\ UNCHANGED <<module, environ, handler_objs, core_handlers, core_extra,
                   core_patcher, queue, confirmation_event, stdout, stderr, pend,
                   cpl, exc, clock, calls, configured, hist, enqueued, ret>>

\* the Handler that setup.py's logger.add builds
SetupHandler(f) ==
    [sink |-> "stdout", levelno |-> Level(f.log_level).no, dynamic |-> FALSE,
     serialize |-> TRUE, enqueue |-> TRUE, backtrace |-> f.is_development,
     diagnose |-> f.is_development, stopped |-> FALSE,
     service_name |-> f.service_name, environment |-> f.environment, by |-> "setup"]

\* the Handler that config.py's logger.add builds: format is the formatter
\* closure over service_name and environment; backtrace, diagnose and enqueue
\* are loguru's defaults
ConfigHandler(f) ==
    [sink |-> "stdout", levelno |-> Level(s_INFO).no, dynamic |-> TRUE,
     serialize |-> FALSE, enqueue |-> FALSE, backtrace |-> TRUE,
     diagnose |-> TRUE, stopped |-> FALSE,
     service_name |-> f.service_name, environment |-> f.environment, by |-> "config"]

Install(obj) ==
    LET id == Cardinality(DOMAIN handler_objs)
    IN  /\ handler_objs' = [h \in DOMAIN handler_objs \cup {id} |->
                              IF h = id THEN obj ELSE handler_objs[h]]
        /\ queue' = [h \in DOMAIN queue \cup {id} |-> IF h = id THEN <<>> ELSE queue[h]]
        /\ core_handlers' = core_handlers \cup {id}

\* logger.add: a level name loguru does not know raises ValueError out of
\* configure_logger before any handler is installed
Add ==
    /\ pc = "add"
    /\ CoreLockFree
    /\ IF module = "setup" /\ ~LevelExists(frame.log_level)
       THEN /\ pc' = "idle"
            /\ frame' = NoFrame
            /\ exc' = [exc EXCEPT !["main"] = "ValueError"]
            /\ configured' = <<>>
            /\ UNCHANGED <<handler_objs, queue, core_handlers>>
       ELSE /\ Install(IF module = "setup" THEN SetupHandler(frame)
                       ELSE ConfigHandler(frame))
            /\ pc' = IF module = "setup" THEN "patcher" ELSE "info"
            /\ UNCHANGED <<frame, exc, configured>>
    /\ UNCHANGED <<module, environ, core_extra, core_patcher, confirmation_event,
                   stdout, stderr, pend, cpl, clock, calls, hist, enqueued, ret>>

\* logger.configure(patcher=...): core.patcher is assigned first
ConfigurePatcher ==
    /\ pc = "patcher"
    /\ CoreLockFree
    /\ core_patcher' = TRUE
    /\ pc' = "extra_clear"
    /\ UNCHANGED <<module, environ, frame, handler_objs, core_handlers, core_extra,
                   queue, confirmation_event, stdout, stderr, pend, cpl, exc,
                   clock, calls, configured, hist, enqueued, ret>>

\* logger.configure(extra=...): core.extra.clear() ...
ConfigureExtraClear ==
    /\ pc = "extra_clear"
    /\ CoreLockFree
    /\ core_extra' = <<>>
    /\ pc' = "extra_update"
    /\ UNCHANGED <<module, environ, frame, handler_objs, core_handlers, core_patcher,
                   queue, confirmation_event, stdout, stderr, pend, cpl, exc,
                   clock, calls, configured, hist, enqueued, ret>>

\* ... then core.extra.update(extra); log calls read core.extra without the lock
ConfigureExtraUpdate ==
    /\ pc = "extra_update"
    /\ core_extra' = DictUpdate(core_extra,
                        << <<s_service, Str(frame.service_name)>>,
                           <<s_environment, Str(frame.environment)>> >>)
    /\ pc' = "info"
    /\ UNCHANGED <<module, environ, frame, handler_objs, core_handlers, core_patcher,
                   queue, confirmation_event, stdout, stderr, pend, cpl, exc,
                   clock, calls, configured, hist, enqueued, ret>>

(***************************************************************************)
(* A log call: Logger._log on the calling thread, then Handler.emit for    *)
(* every handler of the core.handlers it read.                             *)
(***************************************************************************)
\* the dict setup.py's patcher hands to orjson.dumps
PatcherDict(r) ==
    DictUpdate(<< <<s_timestamp, Str(isoformat(r.time))>>,
                  <<s_level, Str(r.level.name)>>,
                  <<s_message, Str(r.message)>> >>,
               r.extra)

\* setup.py 52-62: record.update(message=orjson.dumps({...}).decode("utf-8"))
patcher(r) == [r EXCEPT !.message = Dumps(PatcherDict(r))]

\* Logger._log up to the loop over the handlers.  It returns at once when
\* core.handlers is empty or the level is below core.min_level; core.patcher
\* runs on the calling thread and what it raises reaches the caller.
LogBody(t, lvl, msg, bound, kind) ==
    LET r == [time |-> clock, level |-> lvl, message |-> msg,
              extra |-> DictUpdate(core_extra, bound), thread |-> t,
              g_message |-> msg, g_bound |-> bound, g_kind |-> kind,
              g_configured |-> configured, g_busy |-> (pc # "idle"),
              g_min |-> MinLevel(core_handlers)]
    IN  /\ pend[t] = <<>> /\ cpl[t] = <<>>
        /\ clock' = clock + 1
        /\ hist' = Append(hist, r)
        /\ ret' = [ret EXCEPT ![t] = <<>>]
        /\ IF core_handlers = {} \/ lvl.no < MinLevel(core_handlers)
           THEN /\ exc' = [exc EXCEPT ![t] = "none"]
                /\ pend' = pend
           ELSE IF core_patcher /\ ~Serializable(PatcherDict(r))
           THEN /\ exc' = [exc EXCEPT ![t] = "JSONEncodeError"]
                /\ pend' = pend
           ELSE /\ exc' = [exc EXCEPT ![t] = "none"]
                /\ pend' = [pend EXCEPT ![t] =
                              <<[record |-> IF core_patcher THEN patcher(r) ELSE r,
                                 handlers |-> core_handlers]>>]

\* logger.<level>(msg) or logger.bind(**bound).<level>(msg) in application code
LogCall(t, lvl, msg, bound) ==
    /\ t = "main" => pc = "idle"
    /\ calls' = [calls EXCEPT !.log = @ + 1]
    /\ LogBody(t, lvl, msg, bound, "app")
    /\ UNCHANGED <<module, environ, pc, frame, handler_objs, core_handlers,
                   core_extra, core_patcher, queue, confirmation_event, stdout,
                   stderr, cpl, configured, enqueued>>

\* config.py 13-27: serialize(record); record["exception"] is never set here
serialize(H, r) ==
    LET subset == << <<s_timestamp, Str(isoformat(r.time))>>,
                     <<s_level, Str(r.level.name)>>,
                     <<s_message, Str(r.message)>>,
                     <<s_service, Str(H.service_name)>>,
                     <<s_environment, Str(H.environment)>> >>
    IN  IF r.extra # <<>> THEN DictUpdate(subset, r.extra) ELSE subset

\* config.py 29-31: formatter(record)
formatter(H, r) == Dumps(serialize(H, r)) \o <<"\n">>

\* The text Handler.emit formats.  loguru takes what a callable format
\* returns as the format STRING and applies str.format_map(record) to it, as
\* it does to a str format.
Formatted(H, r) ==
    IF H.dynamic
    THEN IF ~Serializable(serialize(H, r)) THEN [ok |-> FALSE, text |-> <<>>]
         ELSE format_map(formatter(H, r), 1, r, <<>>)
    ELSE format_map(s_message_format, 1, r, <<>>)

\* a queue that hands out the newest message first
PutFirst(q, m) == <<m>> \o q

\* queue.put(m) of the handler's queue
Put(q, m) == Append(q, m)

\* Handler.emit for the least handler the call has not served yet.  An
\* exception inside emit is caught (catch=True) and reported on sys.stderr.
Emit(t) ==
    /\ pend[t] # <<>>
    /\ LET p == pend[t][1]
           h == Least(p.handlers)
           H == handler_objs[h]
           r == p.record
           f == Formatted(H, r)
           m == [kind |-> "msg", text |-> f.text, record |-> r, h |-> h]
           skip == H.levelno > r.level.no
           put == ~skip /\ f.ok /\ ~H.stopped
       IN  /\ pend' = [pend EXCEPT ![t] =
                         IF p.handlers = {h} THEN <<>>
                         ELSE <<[p EXCEPT !.handlers = @ \ {h}]>>]
           /\ queue' = IF put /\ H.enqueue
                       THEN [queue EXCEPT ![h] = Put(@, m)] ELSE queue
           /\ enqueued' = IF put /\ H.enqueue
                          THEN enqueued \cup {r.time} ELSE enqueued
           /\ stdout' = IF put /\ ~H.enqueue /\ H.sink = "stdout"
                        THEN Append(stdout, m) ELSE stdout
           /\ stderr' = IF ~skip /\ ~f.ok
                        THEN Append(stderr, [kind |-> "error", time |-> r.time])
                        ELSE IF put /\ ~H.enqueue /\ H.sink = "stderr"
                        THEN Append(stderr, [kind |-> "msg", time |-> r.time])
                        ELSE stderr
    /\ UNCHANGED <<module, environ, pc, frame, handler_objs, core_handlers,
                   core_extra, core_patcher, confirmation_event, cpl, exc, clock,
                   calls, configured, hist, ret>>

\* The worker thread of an enqueue=True handler: it takes the head of the
\* queue, writes a message to the sink, and answers a confirmation request.
Worker(h) ==
    /\ h \in DOMAIN queue
    /\ queue[h] # <<>>
    /\ queue' = [queue EXCEPT ![h] = Tail(@)]
    /\ IF queue[h][1].kind = "msg"
       THEN /\ stdout' = Append(stdout, queue[h][1])
            /\ UNCHANGED confirmation_event
       ELSE /\ confirmation_event' = confirmation_event \cup {h}
            /\ UNCHANGED stdout
    /\ UNCHANGED <<module, environ, pc, frame, handler_objs, core_handlers,
                   core_extra, core_patcher, stderr, pend, cpl, exc, clock, calls,
                   configured, hist, enqueued, ret>>

(***************************************************************************)
(* logger.complete(): under core.lock, every handler of core.handlers in   *)
(* turn puts a confirmation request on its queue and waits for its worker  *)
(* to answer; a handler without a queue returns at once.                   *)
(***************************************************************************)
Confirm == [kind |-> "confirm"]

\* a confirmation request that overtakes the messages on the queue
PutConfirmFirst(q) == <<Confirm>> \o q

\* complete_queue: queue.put(True)
PutConfirm(q) == Append(q, Confirm)

\* times of the records still on a queue
QueuedTimes(q) ==
    UNION {{q[h][i].record.time : i \in {j \in 1..Len(q[h]) : q[h][j].kind = "msg"}} :
           h \in DOMAIN q}

CompleteBegin(t) ==
    /\ pend[t] = <<>> /\ cpl[t] = <<>>
    /\ t = "main" => pc = "idle"
    /\ CoreLockFree
    /\ calls' = [calls EXCEPT !.complete = @ + 1]
    /\ exc' = [exc EXCEPT ![t] = "none"]
    /\ LET todo == {h \in core_handlers : handler_objs[h].enqueue}
       IN  IF todo = {}
           THEN /\ ret' = [ret EXCEPT ![t] =
                             <<[before |-> enqueued, left |-> QueuedTimes(queue)]>>]
                /\ UNCHANGED <<cpl, queue>>
           ELSE /\ cpl' = [cpl EXCEPT ![t] = <<[todo |-> todo, before |-> enqueued]>>]
                /\ queue' = [queue EXCEPT ![Least(todo)] = PutConfirm(@)]
                /\ ret' = [ret EXCEPT ![t] = <<>>]
    /\ UNCHANGED <<module, environ, pc, frame, handler_objs, core_handlers,
                   core_extra, core_patcher, confirmation_event, stdout, stderr,
                   pend, clock, configured, hist, enqueued>>

CompleteWait(t) ==
    /\ cpl[t] # <<>>
    /\ LET c == cpl[t][1]
           h == Least(c.todo)
           rest == c.todo \ {h}
       IN  /\ h \in confirmation_event
           /\ confirmation_event' = confirmation_event \ {h}
           /\ IF rest = {}
              THEN /\ cpl' = [cpl EXCEPT ![t] = <<>>]
                   /\ ret' = [ret EXCEPT ![t] =
                                <<[before |-> c.before, left |-> QueuedTimes(queue)]>>]
                   /\ UNCHANGED queue
              ELSE /\ cpl' = [cpl EXCEPT ![t] = <<[c EXCEPT !.todo = rest]>>]
                   /\ queue' = [queue EXCEPT ![Least(rest)] = PutConfirm(@)]
                   /\ UNCHANGED ret
    /\ UNCHANGED <<module, environ, pc, frame, handler_objs, core_handlers,
                   core_extra, core_patcher, stdout, stderr, pend, exc, clock,
                   calls, configured, hist, enqueued>>

(***************************************************************************)
(* The end of configure_logger: the confirmation record, then the return.  *)
(***************************************************************************)
Banner ==
    (IF module = "setup" THEN s_setup_banner ELSE s_config_banner)
    \o frame.service_name \o s_banner_end

\* setup.py 65, config.py 39: logger.info(f"... configured for '{service_name}'.")
Info ==
    /\ pc = "info"
    /\ LogBody("main", Level(s_INFO), Banner, <<>>, "banner")
    /\ pc' = IF exc'["main"] = "none" THEN "return" ELSE "idle"
    /\ frame' = IF exc'["main"] = "none" THEN frame ELSE NoFrame
    /\ configured' = IF exc'["main"] = "none" THEN configured ELSE <<>>
    /\ UNCHANGED <<module, environ, handler_objs, core_handlers, core_extra,
                   core_patcher, queue, confirmation_event, stdout, stderr, cpl,
                   calls, enqueued>>

\* configure_logger returns once its logger.info call has
Return ==
    /\ pc = "return"
    /\ pend["main"] = <<>>
    /\ pc' = "idle"
    /\ configured' = <<[service_name |-> frame.service_name,
                        environment |-> frame.environment]>>
    /\ frame' = NoFrame
    /\ UNCHANGED <<module, environ, handler_objs, core_handlers, core_extra,
                   core_patcher, queue, confirmation_event, stdout, stderr, pend,
                   cpl, exc, clock, calls, hist, enqueued, ret>>

(***************************************************************************)
(* Inputs.                                                                 *)
(***************************************************************************)
Modules == {"setup", "config"}
Services == {s_billing, s_auth}
Environments == {s_development, s_DEVELOPMENT, s_production}
Unset == <<>>
Setenv(v) == << <<s_LOG_LEVEL, Str(v)>> >>
\* LOG_LEVEL unset, a level name in lower case, a level name, no level name
Environs == {Unset, Setenv(s_debug), Setenv(s_WARNING), Setenv(s_verbose)}
\* the keyword arguments of logger.bind: none, an ordinary key, a key that
\* is also a core field, a value orjson cannot encode
Bounds == { <<>>,
            << <<s_request_id, Str(s_abc123)>> >>,
            << <<s_message, Str(s_spoofed)>> >>,
            << <<s_payload, Obj(s_object)>> >> }

(***************************************************************************)
(* The steps every specification shares: the statements of a running       *)
(* configure_logger, Handler.emit of a log call under way, the workers.    *)
(***************************************************************************)
Emits == \E t \in Threads : Emit(t)

Workers == \E h \in DOMAIN queue : Worker(h)

Step ==
    \/ Getenv
    \/ Add
    \/ ConfigurePatcher
    \/ ConfigureExtraClear
    \/ ConfigureExtraUpdate
    \/ Info
    \/ Return
    \/ Emits
    \/ Workers

(***************************************************************************)
(* Spec: one application thread configures under every LOG_LEVEL and       *)
(* environment and logs at every level.                                    *)
(***************************************************************************)
Init == InitWith(Modules, Environs)

Configure ==
    /\ calls.configure < MaxConfigure
    /\ \E e \in Environments : Remove(s_billing, e)

AppLog ==
    /\ calls.log < MaxLogs
    /\ \E i \in 1..Len(Levels) : LogCall("main", Levels[i], s_low, <<>>)

Next == Configure \/ AppLog \/ Step

Spec == Init /\ [][Next]_vars

(***************************************************************************)
(* SpecJson: one application thread configures for two services and logs   *)
(* through bound handles, then drains with logger.complete().              *)
(***************************************************************************)
InitJson == InitWith(Modules, {Unset})

ConfigureJson ==
    /\ calls.configure < MaxConfigure
    /\ \E s \in Services : Remove(s, s_production)

BoundLog ==
    /\ calls.log < MaxLogs
    /\ \E b \in Bounds : LogCall("main", Level(s_WARNING), s_low, b)

AppComplete ==
    /\ calls.complete < MaxComplete
    /\ CompleteBegin("main")

NextJson == ConfigureJson \/ BoundLog \/ AppComplete \/ CompleteWait("main") \/ Step

SpecJson == InitJson /\ [][NextJson]_vars

(***************************************************************************)
(* SpecConc: the asynchronous sink of setup.py.  The main thread configures *)
(* once, at startup; once that call has returned two other threads log,    *)
(* and one of them drains.                                                 *)
(***************************************************************************)
Producers == {"t1", "t2"}

InitConc == InitWith({"setup"}, {Unset})

ConfigureConc ==
    /\ calls.configure = 0
    /\ Remove(s_billing, s_production)

ThreadLog ==
    /\ calls.log < MaxThreadLogs
    /\ configured # <<>>
    /\ \E t \in Producers : LogCall(t, Level(s_INFO), s_low, <<>>)

ThreadComplete ==
    /\ calls.complete < MaxComplete
    /\ configured # <<>>
    /\ CompleteBegin("t1")

NextConc ==
    \/ ConfigureConc
    \/ ThreadLog
    \/ ThreadComplete
    \/ CompleteWait("t1")
    \/ Step

SpecConc == InitConc /\ [][NextConc]_vars

(***************************************************************************)
(* SpecReconf: SpecConc, and the main thread calls configure_logger again  *)
(* while the other threads log and drain.                                  *)
(***************************************************************************)
InitReconf == InitWith({"setup"}, {Unset})

Reconfigure ==
    /\ calls.configure \in 1..MaxReconfigure
    /\ Remove(s_billing, s_production)

NextReconf ==
    \/ ConfigureConc
    \/ Reconfigure
    \/ ThreadLog
    \/ ThreadComplete
    \/ CompleteWait("t1")
    \/ Step

SpecReconf == InitReconf /\ [][NextReconf]_vars

(***************************************************************************)
(* Vocabulary of the properties.                                           *)
(***************************************************************************)
\* nothing is in progress: no configure_logger, log call or complete() under
\* way, every queue drained
Quiescent ==
    /\ pc = "idle"
    /\ \A t \in Threads : pend[t] = <<>> /\ cpl[t] = <<>>
    /\ \A h \in DOMAIN queue : queue[h] = <<>>

\* positions of the lines of sys.stdout that carry the record made at time n
LinesOf(n) == {j \in 1..Len(stdout) : stdout[j].record.time = n}

WrittenTimes == {stdout[j].record.time : j \in 1..Len(stdout)}

\* The JSON payload of a written message.  With serialize=True the line is
\* loguru's own JSON of the record, whose "message" member is the payload; a
\* handler without serialize writes the payload and a newline.
Payload(m) ==
    IF handler_objs[m.h].serialize THEN m.record.message
    ELSE SubSeq(m.text, 1, Len(m.text) - 1)

Has(d, k, v) == k \in DictKeys(d) /\ DictGet(d, k) = Str(v)

\* a record application code logged after a configure_logger call returned,
\* none being in progress
AfterConfigure(r) == r.g_kind = "app" /\ r.g_configured # <<>> /\ ~r.g_busy

\* the level name LOG_LEVEL asks for, INFO when it is unset
AskedLevel == upper(getenv(s_LOG_LEVEL, s_INFO))

\* a and b are equal up to the case of their letters
EqualIgnoringCase(a, b) ==
    /\ Len(a) = Len(b)
    /\ \A i \in 1..Len(a) :
          \/ a[i] = b[i]
          \/ /\ LetterIndex(ascii_lowercase, a[i]) > 0
             /\ LetterIndex(ascii_lowercase, a[i]) = LetterIndex(ascii_uppercase, b[i])
          \/ /\ LetterIndex(ascii_uppercase, a[i]) > 0
             /\ LetterIndex(ascii_uppercase, a[i]) = LetterIndex(ascii_lowercase, b[i])

(***************************************************************************)
(* C1.  When a configure_logger call returns exactly one sink is           *)
(* installed, and a log call made afterwards at or above the minimum level *)
(* produces exactly one line on the output stream.                         *)
(***************************************************************************)
C1_OneSinkOneLine ==
    /\ (pc = "idle" /\ configured # <<>>) => Cardinality(core_handlers) = 1
    /\ Quiescent =>
          \A i \in 1..Len(hist) :
             (AfterConfigure(hist[i]) /\ hist[i].level.no >= hist[i].g_min)
                => Cardinality(LinesOf(hist[i].time)) = 1

\* what C1 states, of the configure_logger of setup.py alone
C1_Setup == module = "setup" => C1_OneSinkOneLine

(***************************************************************************)
(* C2.  After configure_logger(s, e), a record logged at or above the      *)
(* minimum level through a handle bound to {k: v} has, once complete() has *)
(* returned, a JSON payload on the output stream with level, message,      *)
(* service == s, environment == e, k == v and a timestamp.                 *)
(***************************************************************************)
PayloadAsClaimed(r, m) ==
    LET p == Loads(Payload(m))
    IN  /\ p.ok
        /\ Has(p.d, s_level, r.level.name)
        /\ Has(p.d, s_message, r.g_message)
        /\ Has(p.d, s_service, r.g_configured[1].service_name)
        /\ Has(p.d, s_environment, r.g_configured[1].environment)
        /\ \A k \in 1..Len(r.g_bound) : Has(p.d, r.g_bound[k][1], r.g_bound[k][2].v)
        /\ s_timestamp \in DictKeys(p.d)

C2_Payload ==
    ret["main"] # <<>> =>
       \A i \in 1..Len(hist) :
          (/\ AfterConfigure(hist[i]) /\ hist[i].level.no >= hist[i].g_min
           /\ hist[i].g_bound # <<>>)
             => \E j \in LinesOf(hist[i].time) : PayloadAsClaimed(hist[i], stdout[j])

\* what C2 states, of setup.py alone and of bound keys and values that are
\* no core field and that orjson encodes
C2_Setup ==
    (module = "setup" /\ ret["main"] # <<>>) =>
       \A i \in 1..Len(hist) :
          (/\ AfterConfigure(hist[i]) /\ hist[i].level.no >= hist[i].g_min
           /\ hist[i].g_bound \in {<<>>, << <<s_request_id, Str(s_abc123)>> >>})
             => \E j \in LinesOf(hist[i].time) : PayloadAsClaimed(hist[i], stdout[j])

(***************************************************************************)
(* C3.  Every sink setup.py's configure_logger installs has backtrace and  *)
(* diagnose both true when the environment equals "development" ignoring   *)
(* letter case, and both false for every other environment.                *)
(***************************************************************************)
C3_Diagnostics ==
    \A h \in DOMAIN handler_objs :
       handler_objs[h].by = "setup" =>
          /\ handler_objs[h].backtrace
                = EqualIgnoringCase(handler_objs[h].environment, s_development)
          /\ handler_objs[h].diagnose
                = EqualIgnoringCase(handler_objs[h].environment, s_development)

\* configure_logger of setup.py has returned after installing a sink for
\* DEVELOPMENT, with both diagnostics on
C3_Witness ==
    /\ pc = "idle"
    /\ \E h \in core_handlers :
          /\ handler_objs[h].by = "setup"
          /\ handler_objs[h].environment = s_DEVELOPMENT
          /\ handler_objs[h].backtrace /\ handler_objs[h].diagnose

(***************************************************************************)
(* C4.  The minimum level of the installed sink is the level LOG_LEVEL     *)
(* names when configure_logger runs (INFO when unset), and a record logged *)
(* at level L is written if and only if L is at or above it.               *)
(***************************************************************************)
C4_MinimumLevel ==
    LevelExists(AskedLevel) =>
       /\ (pc = "idle" /\ configured # <<>>) =>
             \A h \in core_handlers : handler_objs[h].levelno = Level(AskedLevel).no
       /\ Quiescent =>
             \A i \in 1..Len(hist) :
                AfterConfigure(hist[i]) =>
                   (LinesOf(hist[i].time) # {} <=> hist[i].level.no >= Level(AskedLevel).no)

\* what C4 states, of the configure_logger of setup.py alone
C4_Setup == module = "setup" => C4_MinimumLevel

(***************************************************************************)
(* C5.  When logger.complete() returns, every record that was put on the   *)
(* queue before the call has been written to the output stream, and the    *)
(* queue is empty.                                                         *)
(***************************************************************************)
C5_QueueEmpty ==
    \A t \in Threads :
       ret[t] # <<>> => (ret[t][1].before \subseteq WrittenTimes /\ ret[t][1].left = {})

\* C5 as amended: when logger.complete() returns, every record that was put
\* on the queue before the call has been written to the output stream, and
\* none of them is on the queue; records put on it during the call may be.
C5_Drained ==
    \A t \in Threads :
       ret[t] # <<>> =>
          (ret[t][1].before \subseteq WrittenTimes /\ ret[t][1].before \cap ret[t][1].left = {})

\* complete() has returned to t1, after records were put on the queue, while
\* a record another thread put on it during the call is still there
C5_Witness ==
    /\ ret["t1"] # <<>>
    /\ ret["t1"][1].before # {}
    /\ ret["t1"][1].left # {}

(***************************************************************************)
(* C6.  Two records logged by the same thread reach the output stream in   *)
(* the order they were logged, whatever the other threads log in between.  *)
(***************************************************************************)
C6_ThreadOrder ==
    \A i, j \in 1..Len(stdout) :
       (i < j /\ stdout[i].record.thread = stdout[j].record.thread)
          => stdout[i].record.time < stdout[j].record.time

\* two records of t1 are written with a record of another thread in between
C6_Witness ==
    \E i, k, j \in 1..Len(stdout) :
       /\ i < k /\ k < j
       /\ stdout[i].record.thread = "t1" /\ stdout[j].record.thread = "t1"
       /\ stdout[k].record.thread # "t1"

(***************************************************************************)
(* C7.  After configure_logger no logging call raises to the caller, and a *)
(* record with a bound value that JSON cannot hold is written with the     *)
(* value's str() in its place.                                             *)
(***************************************************************************)
C7_NeverRaises ==
    /\ \A t \in Threads : exc[t] # "JSONEncodeError"
    /\ Quiescent =>
          \A i \in 1..Len(hist) :
             (/\ AfterConfigure(hist[i]) /\ hist[i].level.no >= hist[i].g_min
              /\ \E k \in 1..Len(hist[i].g_bound) : hist[i].g_bound[k][2].t = "obj")
                => \E j \in LinesOf(hist[i].time) :
                      LET p == Loads(Payload(stdout[j]))
                      IN  /\ p.ok
                          /\ \A k \in 1..Len(hist[i].g_bound) :
                                Has(p.d, hist[i].g_bound[k][1], hist[i].g_bound[k][2].v)

(***************************************************************************)
(* C8.  When LOG_LEVEL is no level name, configure_logger returns normally *)
(* with exactly one sink installed, at level INFO.                         *)
(***************************************************************************)
C8_FallsBackToInfo ==
    ~LevelExists(AskedLevel) =>
       /\ exc["main"] # "ValueError"
       /\ (pc = "idle" /\ calls.configure > 0) =>
             /\ Cardinality(core_handlers) = 1
             /\ \A h \in core_handlers : handler_objs[h].levelno = Level(s_INFO).no

(***************************************************************************)
(* C9.  The timestamp, level and message of every written payload are the  *)
(* record's own time, level name and message text, whatever keys the bound *)
(* context holds.                                                          *)
(***************************************************************************)
C9_CoreFieldsReserved ==
    \A j \in 1..Len(stdout) :
       LET r == stdout[j].record
           p == Loads(Payload(stdout[j]))
       IN  /\ p.ok
           /\ Has(p.d, s_timestamp, isoformat(r.time))
           /\ Has(p.d, s_level, r.level.name)
           /\ Has(p.d, s_message, r.g_message)

(***************************************************************************)
(* C10.  Once a first configure_logger call has returned, a record at or   *)
(* above the minimum level that another thread logs while a later call is  *)
(* in progress is written exactly once.                                    *)
(***************************************************************************)
C10_WrittenOnceDuringReconfigure ==
    Quiescent =>
       \A i \in 1..Len(hist) :
          (/\ hist[i].g_kind = "app" /\ hist[i].thread # "main"
           /\ hist[i].g_configured # <<>> /\ hist[i].g_busy
           /\ LevelExists(AskedLevel) /\ hist[i].level.no >= Level(AskedLevel).no)
             => Cardinality(LinesOf(hist[i].time)) = 1

=============================================================================
